---- MODULE Spec2Model ----
(***************************************************************************)
(* csc::List<T> (src/src/list.hpp): a doubly linked list with a sentinel   *)
(* node after the last real element.  The model keeps the heap explicit:   *)
(* every Node lives at an address, `new` takes the lowest unused address   *)
(* and `delete` returns it.  A head_ or tail_ left pointing to a deleted   *)
(* node dangles: its use is undefined whatever the allocator has placed    *)
(* there since, so the model keeps such an address out of `new` and takes  *)
(* the use as a step to "ub" whose reads yield any pointer at all.  Two    *)
(* List objects, "a" and "b", are enough for the copy and move operations. *)
(***************************************************************************)
EXTENDS Integers, Sequences, FiniteSets, TLC

\* Bounds of the model.
MaxNodes == 6        \* addresses of the heap
MaxSize == 3         \* a push is taken only below this size_
MaxVal == 2          \* element values pushed or written are 1..MaxVal

NULL == 0            \* nullptr
BAD == NULL - 1            \* marks a traversal that leaves the live nodes
DefaultT == 0        \* T(), the value a sentinel is constructed with

Addr == 1..MaxNodes
Ptr == Addr \cup {NULL}
Values == 1..MaxVal
Lists == {"a", "b"}

VARIABLES
    mem,      \* mem[p]: the Node stored at address p
    live,     \* the addresses of the nodes allocated and not yet deleted
    head_,    \* head_[l], for each List object l
    tail_,    \* tail_[l]
    size_,    \* size_[l]
    alive,    \* alive[l]: the object l is constructed and not destroyed
    status,   \* "ok", "crashed" (null dereference) or "ub" (freed node used)
    last,     \* the last call: its name, arguments, result and the state before
    hist      \* hist[l]: the values pushed on l, in call order (see SpecPushBack)

vars == <<mem, live, head_, tail_, size_, alive, status, last, hist>>

\* struct Node: the constructor Node(data, next, prev).
Node(data, next, prev) == [next_ |-> next, prev_ |-> prev, data_ |-> data]

\* The content the model gives the storage of a deleted node; it is never
\* read: a read of a deleted node is a nondeterministic value.
FreeCell == Node(DefaultT, NULL, NULL)

\* operator new: the lowest address outside `used`.
New(used) == CHOOSE p \in Addr \ used : \A q \in Addr \ used : p <= q

Free(used) == Cardinality(Addr \ used)

\* The List objects of a machine state: "a", "b" and the local `tmp` of
\* copy assignment.
Objs == Lists \cup {"tmp"}

\* The machine state the operations below are functions of: the heap, the
\* fields of every object, the value returned, and the counts of `new` and
\* `delete` executed so far in the call.
Mach ==
    [mem |-> mem, live |-> live, st |-> status,
     head_ |-> [x \in Objs |-> IF x \in Lists THEN head_[x] ELSE NULL],
     tail_ |-> [x \in Objs |-> IF x \in Lists THEN tail_[x] ELSE NULL],
     size_ |-> [x \in Objs |-> IF x \in Lists THEN size_[x] ELSE 0],
     ret |-> NULL, news |-> 0, dels |-> 0]

\* The addresses `new` does not return in machine state S: those of the live
\* nodes and those a head_ or tail_ still holds.
Used(S) == S.live \cup {S.head_[x] : x \in Objs} \cup {S.tail_[x] : x \in Objs}

----------------------------------------------------------------------------
\* Observers, evaluated on a memory m with live set lv.

\* List::end(): tail_ ? tail_->next_ : nullptr.  BAD when tail_ dangles.
EndOf(m, lv, hd, tl) ==
    IF tl = NULL THEN NULL
    ELSE IF tl \in lv THEN m[tl].next_ ELSE BAD

\* for (it = begin; it != end; ++it): the nodes `it` is dereferenced at.  A
\* step onto nullptr or a deleted node, or a walk that does not end, yields
\* BAD as its last item.
RECURSIVE WalkNext(_, _, _, _, _)
WalkNext(m, lv, p, e, fuel) ==
    IF p = e THEN <<>>
    ELSE IF p \notin lv \/ fuel = 0 THEN <<BAD>>
    ELSE <<p>> \o WalkNext(m, lv, m[p].next_, e, fuel - 1)

\* std::reverse_iterator from rbegin() (base p = end()) to rend() (base b =
\* begin()): *rit is *(--tmp) on a copy of the base, ++rit is --base.
RECURSIVE WalkPrev(_, _, _, _, _)
WalkPrev(m, lv, p, b, fuel) ==
    IF p = b THEN <<>>
    ELSE IF p \notin lv \/ fuel = 0 THEN <<BAD>>
    ELSE <<m[p].prev_>> \o WalkPrev(m, lv, m[p].prev_, b, fuel - 1)

\* operator*: node_->data_, BAD on nullptr or a deleted node.
Deref(m, lv, p) == IF p \in lv THEN m[p].data_ ELSE BAD

\* The nodes p, p->next_, ... for k steps (k+1 nodes); BAD where the chain breaks.
RECURSIVE ChainNext(_, _, _, _)
ChainNext(m, lv, p, k) ==
    IF p \notin lv THEN <<BAD>>
    ELSE IF k = 0 THEN <<p>>
    ELSE <<p>> \o ChainNext(m, lv, m[p].next_, k - 1)

RECURSIVE ChainPrev(_, _, _, _)
ChainPrev(m, lv, p, k) ==
    IF p \notin lv THEN <<BAD>>
    ELSE IF k = 0 THEN <<p>>
    ELSE <<p>> \o ChainPrev(m, lv, m[p].prev_, k - 1)

Range(s) == {s[i] : i \in 1..Len(s)}

Reverse(s) == [i \in 1..Len(s) |-> s[Len(s) + 1 - i]]

begin(l) == head_[l]
end(l) == EndOf(mem, live, head_[l], tail_[l])
empty(l) == head_[l] = NULL
size(l) == size_[l]

\* The nodes forward iteration from begin() to end() dereferences, and the
\* values it yields.
ForwardNodes(l) == WalkNext(mem, live, begin(l), end(l), MaxNodes)
Forward(l) == [i \in 1..Len(ForwardNodes(l)) |-> Deref(mem, live, ForwardNodes(l)[i])]

\* The same for reverse iteration from rbegin() to rend().
BackwardNodes(l) == WalkPrev(mem, live, end(l), begin(l), MaxNodes)
Backward(l) == [i \in 1..Len(BackwardNodes(l)) |-> Deref(mem, live, BackwardNodes(l)[i])]

\* front() and back()
front(l) == Deref(mem, live, head_[l])
back(l) == Deref(mem, live, tail_[l])

\* The nodes of l: head_ and the size_ nodes after it.
NodesOf(l) ==
    IF head_[l] = NULL THEN {}
    ELSE Range(ChainNext(mem, live, head_[l], size_[l]))

\* The representation of section 3 of the specification.
WellFormed(l) ==
    IF size_[l] = 0 THEN head_[l] = NULL /\ tail_[l] = NULL
    ELSE LET fw == ChainNext(mem, live, head_[l], size_[l])
             s == fw[Len(fw)]
         IN  /\ Len(fw) = size_[l] + 1
             /\ BAD \notin Range(fw)
             /\ Cardinality(Range(fw)) = size_[l] + 1
             /\ tail_[l] = fw[size_[l]]
             /\ mem[s].next_ = NULL
             /\ mem[head_[l]].prev_ = NULL
             /\ ChainPrev(mem, live, s, size_[l]) = Reverse(fw)

----------------------------------------------------------------------------
\* The operations, as functions on a machine state S, for the object l.
\* A dereference of nullptr ends the program ("crashed"); a use of a deleted
\* node is undefined ("ub"): what is read from it is any pointer at all.

Crash(S) == [S EXCEPT !.st = "crashed"]
Ub(S) == [S EXCEPT !.st = "ub"]

\* head_ = tail_ = new Node(data, nullptr, nullptr);
\* tail_->next_ = new Node(T(), nullptr, tail_); ++size_;
Bootstrap(S, l, data) ==
    LET n1 == New(Used(S))
        n2 == New(Used(S) \cup {n1})
    IN  [S EXCEPT !.mem = [S.mem EXCEPT ![n1] = Node(data, n2, NULL),
                                        ![n2] = Node(DefaultT, NULL, n1)],
                  !.live = S.live \cup {n1, n2},
                  !.news = S.news + 2,
                  !.head_[l] = n1,
                  !.tail_[l] = n1,
                  !.size_[l] = S.size_[l] + 1]

\* ReuseSentinel without `tail_->data_ = data`.
ReuseSentinel_NoData(S, l, data, h) ==
    LET t == S.tail_[l]
        nt == S.mem[t].next_
        n == New(Used([S EXCEPT !.tail_[l] = nt]))
    IN  [S EXCEPT !.mem = [S.mem EXCEPT ![n] = Node(DefaultT, NULL, nt),
                                        ![nt].next_ = n],
                  !.live = S.live \cup {n},
                  !.news = S.news + 1,
                  !.tail_[l] = nt,
                  !.size_[l] = S.size_[l] + 1]

\* ReuseSentinel with the new sentinel built as Node(T(), nullptr, nullptr).
ReuseSentinel_NoPrev(S, l, data, h) ==
    LET t == S.tail_[l]
        nt == S.mem[t].next_
        n == New(Used([S EXCEPT !.tail_[l] = nt]))
    IN  [S EXCEPT !.mem = [S.mem EXCEPT ![n] = Node(DefaultT, NULL, NULL),
                                        ![nt].data_ = data,
                                        ![nt].next_ = n],
                  !.live = S.live \cup {n},
                  !.news = S.news + 1,
                  !.tail_[l] = nt,
                  !.size_[l] = S.size_[l] + 1]

\* A push_back that links a new node before the sentinel and keeps the
\* sentinel.
ReuseSentinel_InsertBefore(S, l, data, h) ==
    LET t == S.tail_[l]
        e == S.mem[t].next_
        n == New(Used(S))
    IN  IF t \notin S.live \/ e \notin S.live THEN Ub(S)
        ELSE [S EXCEPT !.mem = [S.mem EXCEPT ![n] = Node(data, e, t),
                                             ![t].next_ = n,
                                             ![e].prev_ = n],
                       !.live = S.live \cup {n},
                       !.news = S.news + 1,
                       !.tail_[l] = n,
                       !.size_[l] = S.size_[l] + 1]

\* ReuseSentinel with `tail_->data_ = data` before `tail_ = tail_->next_`.
ReuseSentinel_WriteOldTail(S, l, data, h) ==
    LET t == S.tail_[l]
        nt == S.mem[t].next_
        n == New(Used([S EXCEPT !.tail_[l] = nt]))
    IN  [S EXCEPT !.mem = [S.mem EXCEPT ![n] = Node(DefaultT, NULL, nt),
                                        ![t].data_ = data,
                                        ![nt].next_ = n],
                  !.live = S.live \cup {n},
                  !.news = S.news + 1,
                  !.tail_[l] = nt,
                  !.size_[l] = S.size_[l] + 1]

\* tail_ = tail_->next_; tail_->data_ = data;
\* tail_->next_ = new Node(T(), nullptr, tail_); ++size_;
\* h is what tail_->next_ reads as when tail_ is a deleted node.
ReuseSentinel(S, l, data, h) ==
    LET t == S.tail_[l]
        nt == IF t \in S.live THEN S.mem[t].next_ ELSE h
        n == New(Used([S EXCEPT !.tail_[l] = nt]))
        lv == S.live \cup {n}
        m1 == IF nt \in S.live THEN [S.mem EXCEPT ![nt].data_ = data] ELSE S.mem
        m2 == [m1 EXCEPT ![n] = Node(DefaultT, NULL, nt)]
        m3 == IF nt \in lv THEN [m2 EXCEPT ![nt].next_ = n] ELSE m2
    IN  IF t = NULL \/ nt = NULL THEN Crash(S)
        ELSE [S EXCEPT !.mem = m3,
                       !.live = lv,
                       !.news = S.news + 1,
                       !.tail_[l] = nt,
                       !.size_[l] = S.size_[l] + 1,
                       !.st = IF t \in S.live /\ nt \in S.live THEN S.st ELSE "ub"]

push_back(S, l, data, h) ==
    IF S.head_[l] = NULL THEN Bootstrap(S, l, data) ELSE ReuseSentinel(S, l, data, h)

\* LinkFront without `head_ = node`.
LinkFront_NoHead(S, l, data) ==
    LET hd == S.head_[l]
        n == New(Used(S))
    IN  [S EXCEPT !.mem = [S.mem EXCEPT ![n] = Node(data, hd, NULL),
                                        ![hd].prev_ = n],
                  !.live = S.live \cup {n},
                  !.news = S.news + 1,
                  !.size_[l] = S.size_[l] + 1]

\* auto node = new Node(data, head_, nullptr); head_->prev_ = node;
\* head_ = node; ++size_;
LinkFront(S, l, data) ==
    LET hd == S.head_[l]
        n == New(Used(S))
        m1 == [S.mem EXCEPT ![n] = Node(data, hd, NULL)]
    IN  IF hd \notin S.live THEN Ub(S)
        ELSE [S EXCEPT !.mem = [m1 EXCEPT ![hd].prev_ = n],
                       !.live = S.live \cup {n},
                       !.news = S.news + 1,
                       !.head_[l] = n,
                       !.size_[l] = S.size_[l] + 1]

push_front(S, l, data) ==
    IF S.head_[l] = NULL THEN Bootstrap(S, l, data) ELSE LinkFront(S, l, data)

\* while (head_ != nullptr) delete std::exchange(head_, head_->next_);
RECURSIVE ClearLoop(_, _)
ClearLoop(S, l) ==
    IF S.head_[l] = NULL \/ S.st # "ok" THEN S
    ELSE IF S.head_[l] \notin S.live THEN Ub(S)
    ELSE LET hd == S.head_[l]
         IN  ClearLoop([S EXCEPT !.head_[l] = S.mem[hd].next_,
                                 !.mem[hd] = FreeCell,
                                 !.live = S.live \ {hd},
                                 !.dels = S.dels + 1], l)

\* clear() without `size_ = 0`.
clear_KeepSize(S, l) ==
    LET T == ClearLoop(S, l)
    IN  IF T.st = "ok"
        THEN [T EXCEPT !.head_[l] = NULL, !.tail_[l] = NULL]
        ELSE T

\* clear(): the loop, then head_ = tail_ = nullptr; size_ = 0.
clear(S, l) ==
    LET T == ClearLoop(S, l)
    IN  IF T.st = "ok"
        THEN [T EXCEPT !.head_[l] = NULL, !.tail_[l] = NULL, !.size_[l] = 0]
        ELSE T

\* Unlink without `node->next_->prev_ = node->prev_`.
Unlink_NoPrevFix(S, l, node) ==
    LET p == S.mem[node].prev_
        n == S.mem[node].next_
    IN  IF p = NULL \/ n = NULL THEN Crash(S)
        ELSE IF p \notin S.live \/ n \notin S.live THEN Ub(S)
        ELSE [S EXCEPT !.mem = [S.mem EXCEPT ![p].next_ = n, ![node] = FreeCell],
                       !.live = S.live \ {node},
                       !.dels = S.dels + 1,
                       !.size_[l] = S.size_[l] - 1,
                       !.ret = n]

\* The part of erase after the size() == 1 case: unlink pos.node_, delete
\* it, --size_, return iterator(next).
Unlink(S, l, node) ==
    LET p == S.mem[node].prev_
        n == S.mem[node].next_
    IN  IF p = NULL \/ n = NULL THEN Crash(S)
        ELSE IF p \notin S.live \/ n \notin S.live THEN Ub(S)
        ELSE [S EXCEPT !.mem = [S.mem EXCEPT ![p].next_ = n,
                                             ![n].prev_ = p,
                                             ![node] = FreeCell],
                       !.live = S.live \ {node},
                       !.dels = S.dels + 1,
                       !.size_[l] = S.size_[l] - 1,
                       !.ret = n]

\* erase without the size() == 1 case.
erase_NoSizeOne(S, l, node) == Unlink(S, l, node)

\* iterator erase(iterator pos)
erase(S, l, node) ==
    IF S.size_[l] = 1
    THEN LET T == clear(S, l) IN [T EXCEPT !.ret = T.head_[l]]
    ELSE Unlink(S, l, node)

\* push_back(data) on l when operator new throws std::bad_alloc for want of
\* an address: the first `new` of an empty list throws with nothing done,
\* the second after head_ = tail_ = new Node(...); on a non-empty list
\* tail_ has moved on and holds data when the `new` of the sentinel throws.
\* ++size_ is not reached.
BadAlloc(S, l, data) ==
    LET n1 == New(Used(S))
        nt == S.mem[S.tail_[l]].next_
        T == IF S.head_[l] # NULL
             THEN [S EXCEPT !.tail_[l] = nt, !.mem[nt].data_ = data]
             ELSE IF Free(Used(S)) = 0 THEN S
             ELSE [S EXCEPT !.mem[n1] = Node(data, NULL, NULL),
                            !.live = S.live \cup {n1},
                            !.news = S.news + 1,
                            !.head_[l] = n1,
                            !.tail_[l] = n1]
    IN  [T EXCEPT !.st = "bad_alloc"]

\* for (const auto& item : other) push_back(item);  `it` walks the nodes of
\* other up to e, which is other.end() evaluated once before the loop.
RECURSIVE CopyLoop(_, _, _, _)
CopyLoop(S, l, it, e) ==
    IF it = e \/ S.st # "ok" THEN S
    ELSE IF it = NULL THEN Crash(S)
    ELSE IF it \notin S.live THEN Ub(S)
    ELSE IF Free(Used(S)) < (IF S.head_[l] = NULL THEN 2 ELSE 1)
         THEN BadAlloc(S, l, S.mem[it].data_)
    ELSE LET T == push_back(S, l, S.mem[it].data_, NULL)
         IN  CopyLoop(T, l, T.mem[it].next_, e)

\* List(const List& other), on the fresh object l.
CopyConstruct(S, l, other) ==
    LET e == EndOf(S.mem, S.live, S.head_[other], S.tail_[other])
        T == [S EXCEPT !.head_[l] = NULL, !.tail_[l] = NULL, !.size_[l] = 0]
    IN  IF e = BAD THEN Ub(T) ELSE CopyLoop(T, l, S.head_[other], e)

\* A range constructor whose loop starts one element after `first`.
RangeConstruct_SkipFirst(S, l, first, lst) ==
    LET T == [S EXCEPT !.head_[l] = NULL, !.tail_[l] = NULL, !.size_[l] = 0]
    IN  IF first = lst \/ first \notin S.live THEN T
        ELSE CopyLoop(T, l, S.mem[first].next_, lst)

\* List(iterator begin, iterator end) and List(const_iterator, const_iterator),
\* on the fresh object l: for (auto it = begin; it != end; ++it) push_back(*it).
RangeConstruct(S, l, first, lst) ==
    LET T == [S EXCEPT !.head_[l] = NULL, !.tail_[l] = NULL, !.size_[l] = 0]
    IN  CopyLoop(T, l, first, lst)

\* std::swap of head_, tail_ and size_ between the objects x and y.
SwapFields(S, x, y) ==
    [S EXCEPT !.head_[x] = S.head_[y], !.head_[y] = S.head_[x],
              !.tail_[x] = S.tail_[y], !.tail_[y] = S.tail_[x],
              !.size_[x] = S.size_[y], !.size_[y] = S.size_[x]]

\* A move constructor that copies the fields and leaves other as it was.
MoveConstruct_Shallow(S, l, other) ==
    [S EXCEPT !.head_[l] = S.head_[other], !.tail_[l] = S.tail_[other],
              !.size_[l] = S.size_[other]]

\* List(List&& other), on the fresh object l (head_ = tail_ = nullptr,
\* size_ = 0 by the member initializers): the swaps, then
\* other.head_ = nullptr; other.tail_ = nullptr.
MoveConstruct(S, l, other) ==
    LET T == SwapFields([S EXCEPT !.head_[l] = NULL, !.tail_[l] = NULL,
                                  !.size_[l] = 0], l, other)
    IN  [T EXCEPT !.head_[other] = NULL, !.tail_[other] = NULL]

\* A copy assignment that clears *this and then copies into it.
CopyAssignment_ClearFirst(S, l, other) ==
    IF l = other THEN S
    ELSE CopyConstruct(clear(S, l), l, other)

\* operator=(const List&) without the test this != std::addressof(other).
CopyAssignment_NoSelfCheck(S, l, other) ==
    LET T == CopyConstruct(S, "tmp", other)
    IN  IF T.st # "ok" THEN T
        ELSE clear(SwapFields(T, l, "tmp"), "tmp")

\* operator=(const List& other): List tmp(other); the swaps; ~tmp().  When
\* the constructor of tmp throws, the swaps are not reached and no
\* destructor runs for tmp: the nodes it had allocated stay live.
CopyAssignment(S, l, other) ==
    IF l = other THEN S
    ELSE LET T == CopyConstruct(S, "tmp", other)
         IN  IF T.st # "ok" THEN T
             ELSE clear(SwapFields(T, l, "tmp"), "tmp")

\* A move assignment that takes the fields of other and leaves other empty.
MoveAssignment_Steal(S, l, other) ==
    IF l = other THEN S
    ELSE [S EXCEPT !.head_[l] = S.head_[other], !.head_[other] = NULL,
                   !.tail_[l] = S.tail_[other], !.tail_[other] = NULL,
                   !.size_[l] = S.size_[other], !.size_[other] = 0]

\* A move assignment without std::swap(size_, other.size_).
MoveAssignment_NoSize(S, l, other) ==
    IF l = other THEN S
    ELSE [S EXCEPT !.head_[l] = S.head_[other], !.head_[other] = S.head_[l],
                   !.tail_[l] = S.tail_[other], !.tail_[other] = S.tail_[l]]

\* operator=(List&& other)
MoveAssignment(S, l, other) ==
    IF l = other THEN S ELSE SwapFields(S, l, other)

----------------------------------------------------------------------------
\* The program never orders, prints or computes with an address, so two
\* states that differ by a renaming of the addresses behave alike.  Every
\* action stores the representative in which the nodes are numbered in the
\* order of a's chain, then b's, then the addresses left.

RECURSIVE ChainOrd(_, _, _, _)
ChainOrd(m, lv, p, acc) ==
    IF p \notin lv \/ p \in Range(acc) THEN acc
    ELSE ChainOrd(m, lv, m[p].next_, Append(acc, p))

AddPtr(acc, p) == IF p \in Addr \ Range(acc) THEN Append(acc, p) ELSE acc

ListOrd(S, x, acc) ==
    AddPtr(AddPtr(ChainOrd(S.mem, S.live, S.head_[x], acc), S.head_[x]), S.tail_[x])

RECURSIVE Ascending(_)
Ascending(A) ==
    IF A = {} THEN <<>>
    ELSE LET lo == CHOOSE p \in A : \A q \in A : p <= q
         IN  <<lo>> \o Ascending(A \ {lo})

Ord(S) ==
    LET o == ListOrd(S, "b", ListOrd(S, "a", <<>>))
    IN  o \o Ascending(Addr \ Range(o))

Rename(ord, p) == IF p \in Addr THEN CHOOSE i \in 1..Len(ord) : ord[i] = p ELSE p

\* The state before a call, as the call record keeps it.
Snap ==
    [size |-> size_,
     wf |-> [x \in Lists |-> alive[x] /\ WellFormed(x)],
     head |-> head_,
     tail |-> tail_,
     end |-> [x \in Lists |-> end(x)]]

\* The machine state S, reached by the call op(idx, v) on l, becomes the
\* state, and the call is recorded with the state it started from.
Store(T, op, l, o, idx, v) ==
    \E S \in {T} : \E ord \in {Ord(S)} : \E pre \in {Snap} :
    LET R(p) == Rename(ord, p)
    IN  /\ mem' = [q \in Addr |-> Node(S.mem[ord[q]].data_,
                                       R(S.mem[ord[q]].next_),
                                       R(S.mem[ord[q]].prev_))]
        /\ live' = {R(p) : p \in S.live}
        /\ head_' = [x \in Lists |-> R(S.head_[x])]
        /\ tail_' = [x \in Lists |-> R(S.tail_[x])]
        /\ size_' = [x \in Lists |-> S.size_[x]]
        /\ status' = S.st
        /\ last' = [op |-> op, l |-> l, o |-> o, idx |-> idx, v |-> v, ret |-> R(S.ret),
                    news |-> S.news, dels |-> S.dels,
                    pre |-> [pre EXCEPT !.head = [x \in Lists |-> R(head_[x])],
                                         !.tail = [x \in Lists |-> R(tail_[x])],
                                         !.end = [x \in Lists |-> R(end(x))]]]

\* The node an iterator reaches from begin() by i-1 increments.
NodeAt(l, i) ==
    LET c == ChainNext(mem, live, head_[l], i - 1)
    IN  IF Len(c) = i THEN c[i] ELSE BAD

Running(l) == status = "ok" /\ alive[l]

\* Enough unused addresses for a push on l.
CanPush(l) == Free(Used(Mach)) >= (IF head_[l] = NULL THEN 2 ELSE 1)

Init ==
    /\ mem = [p \in Addr |-> FreeCell]
    /\ live = {}
    /\ head_ = [l \in Lists |-> NULL]
    /\ tail_ = [l \in Lists |-> NULL]
    /\ size_ = [l \in Lists |-> 0]
    /\ alive = [l \in Lists |-> l = "a"]
    /\ status = "ok"
    /\ hist = [l \in Lists |-> <<>>]
    /\ last = [op |-> "List", l |-> "a", o |-> "a", idx |-> 0, v |-> 0, ret |-> NULL,
               news |-> 0, dels |-> 0,
               pre |-> [size |-> [x \in Lists |-> 0],
                        wf |-> [x \in Lists |-> FALSE],
                        head |-> [x \in Lists |-> NULL],
                        tail |-> [x \in Lists |-> NULL],
                        end |-> [x \in Lists |-> NULL]]]

\* List() = default
DefaultCtor(l) ==
    /\ status = "ok" /\ ~alive[l]
    /\ Store([Mach EXCEPT !.head_[l] = NULL, !.tail_[l] = NULL, !.size_[l] = 0],
             "List", l, l, 0, 0)
    /\ alive' = [alive EXCEPT ![l] = TRUE]

PushBack(l, v) ==
    /\ Running(l)
    /\ size_[l] < MaxSize
    /\ CanPush(l)
    /\ \E h \in Ptr :
         /\ (tail_[l] \in live \/ tail_[l] = NULL) => h = NULL
         /\ Store(push_back(Mach, l, v, h), "push_back", l, l, 0, v)
    /\ UNCHANGED alive

PushFront(l, v) ==
    /\ Running(l)
    /\ size_[l] < MaxSize
    /\ CanPush(l)
    /\ Store(push_front(Mach, l, v), "push_front", l, l, 0, v)
    /\ UNCHANGED alive

\* erase(pos), pos the iterator to the i-th element of l.
Erase(l, i) ==
    /\ Running(l)
    /\ i \in 1..size_[l]
    /\ NodeAt(l, i) # BAD
    /\ Store(erase(Mach, l, NodeAt(l, i)), "erase", l, l, i, 0)
    /\ UNCHANGED alive

Clear(l) ==
    /\ Running(l)
    /\ Store(clear(Mach, l), "clear", l, l, 0, 0)
    /\ UNCHANGED alive

\* *it = v, it the iterator to the i-th element of l.
Write(l, i, v) ==
    /\ Running(l)
    /\ i \in 1..size_[l]
    /\ NodeAt(l, i) # BAD
    /\ mem[NodeAt(l, i)].data_ # v
    /\ Store([Mach EXCEPT !.mem[NodeAt(l, i)].data_ = v], "write", l, l, i, v)
    /\ UNCHANGED alive

\* ~List() { clear(); }
Dtor(l) ==
    /\ Running(l)
    /\ Store(clear(Mach, l), "~List", l, l, 0, 0)
    /\ alive' = [alive EXCEPT ![l] = FALSE]

\* List l(o): copy construction of l from o.
CopyCtor(l, o) ==
    /\ status = "ok" /\ ~alive[l] /\ alive[o]
    /\ LET S == CopyConstruct(Mach, l, o)
       IN  S.st # "bad_alloc" /\ Store(S, "List(const List&)", l, o, 0, 0)
    /\ alive' = [alive EXCEPT ![l] = TRUE]

\* The two range constructors.
RangeOps == {"List(iterator, iterator)", "List(const_iterator, const_iterator)"}

\* List l(o.begin(), o.end()) and List l(o.cbegin(), o.cend()).  The
\* arguments are evaluated first: end() of a list whose tail_ dangles reads
\* a deleted node.
RangeCtor(l, o, op) ==
    /\ status = "ok" /\ ~alive[l] /\ alive[o]
    /\ LET S == IF end(o) = BAD THEN Ub(Mach)
                ELSE RangeConstruct(Mach, l, begin(o), end(o))
       IN  S.st # "bad_alloc" /\ Store(S, op, l, o, 0, 0)
    /\ alive' = [alive EXCEPT ![l] = TRUE]

\* List l(std::move(o)): move construction of l from o.
MoveCtor(l, o) ==
    /\ status = "ok" /\ ~alive[l] /\ alive[o]
    /\ Store(MoveConstruct(Mach, l, o), "List(List&&)", l, o, 0, 0)
    /\ alive' = [alive EXCEPT ![l] = TRUE]

\* l = o
CopyAssign(l, o) ==
    /\ Running(l) /\ alive[o]
    /\ LET S == CopyAssignment(Mach, l, o)
       IN  S.st # "bad_alloc" /\ Store(S, "operator=(const List&)", l, o, 0, 0)
    /\ UNCHANGED alive

\* l = o, when a `new` of the copy throws std::bad_alloc; the exception
\* leaves operator= and ends the program.
CopyAssignThrows(l, o) ==
    /\ Running(l) /\ alive[o]
    /\ LET S == CopyAssignment(Mach, l, o)
       IN  S.st = "bad_alloc" /\ Store(S, "operator=(const List&)", l, o, 0, 0)
    /\ UNCHANGED alive

\* l = std::move(o)
MoveAssign(l, o) ==
    /\ Running(l) /\ alive[o]
    /\ Store(MoveAssignment(Mach, l, o), "operator=(List&&)", l, o, 0, 0)
    /\ UNCHANGED alive

\* Any call of the public interface, on either object.
Next ==
    \/ \E l \in Lists : DefaultCtor(l) /\ UNCHANGED hist
    \/ \E l \in Lists, v \in Values : PushBack(l, v) /\ UNCHANGED hist
    \/ \E l \in Lists, v \in Values : PushFront(l, v) /\ UNCHANGED hist
    \/ \E l \in Lists, i \in 1..MaxSize : Erase(l, i) /\ UNCHANGED hist
    \/ \E l \in Lists : Clear(l) /\ UNCHANGED hist
    \/ \E l \in Lists, i \in 1..MaxSize, v \in Values : Write(l, i, v) /\ UNCHANGED hist
    \/ \E l \in Lists : Dtor(l) /\ UNCHANGED hist
    \/ \E l \in Lists, o \in Lists : CopyCtor(l, o) /\ UNCHANGED hist
    \/ \E l \in Lists, o \in Lists : MoveCtor(l, o) /\ UNCHANGED hist
    \/ \E l \in Lists, o \in Lists : CopyAssign(l, o) /\ UNCHANGED hist
    \/ \E l \in Lists, o \in Lists : MoveAssign(l, o) /\ UNCHANGED hist

Spec == Init /\ [][Next]_vars

\* Programs that default-construct the objects and only call push_back;
\* hist records the values passed, in call order.
NextPushBack ==
    \/ \E l \in Lists : DefaultCtor(l) /\ UNCHANGED hist
    \/ \E l \in Lists, v \in Values :
         PushBack(l, v) /\ hist' = [hist EXCEPT ![l] = Append(hist[l], v)]

SpecPushBack == Init /\ [][NextPushBack]_vars

\* Programs that default-construct the objects and only call push_front.
NextPushFront ==
    \/ \E l \in Lists : DefaultCtor(l) /\ UNCHANGED hist
    \/ \E l \in Lists, v \in Values :
         PushFront(l, v) /\ hist' = [hist EXCEPT ![l] = Append(hist[l], v)]

SpecPushFront == Init /\ [][NextPushFront]_vars

\* Programs in which b, when it exists, is a copy of a: a is filled, b is
\* copy-constructed from it, and both are written through iterators,
\* pushed on, erased from and cleared.
NextCopy ==
    \/ CopyCtor("b", "a") /\ UNCHANGED hist
    \/ \E l \in Lists, v \in Values : PushBack(l, v) /\ UNCHANGED hist
    \/ \E l \in Lists, v \in Values : PushFront(l, v) /\ UNCHANGED hist
    \/ \E l \in Lists, i \in 1..MaxSize : Erase(l, i) /\ UNCHANGED hist
    \/ \E l \in Lists : Clear(l) /\ UNCHANGED hist
    \/ \E l \in Lists, i \in 1..MaxSize, v \in Values : Write(l, i, v) /\ UNCHANGED hist

SpecCopy == Init /\ [][NextCopy]_vars

\* Iterators to every real element of both lists, taken before a call that
\* ends in machine state T: the node each refers to, under the name the
\* node has after the call, and the value it dereferences to.
Iterators(T) ==
    \E ord \in {Ord(T)} :
        hist' = [x \in Lists |->
                    [i \in 1..size_[x] |->
                        [node |-> Rename(ord, NodeAt(x, i)),
                         val |-> Deref(mem, live, NodeAt(x, i))]]]

\* Programs that default-construct the objects and call push_back and
\* push_front; hist holds the iterators taken before the last call.
NextIter ==
    \/ \E l \in Lists :
         DefaultCtor(l)
         /\ Iterators([Mach EXCEPT !.head_[l] = NULL, !.tail_[l] = NULL, !.size_[l] = 0])
    \/ \E l \in Lists, v \in Values :
         PushBack(l, v) /\ Iterators(push_back(Mach, l, v, NULL))
    \/ \E l \in Lists, v \in Values :
         PushFront(l, v) /\ Iterators(push_front(Mach, l, v))

SpecIter == Init /\ [][NextIter]_vars

\* Programs that call push_back, push_front and clear in any order on
\* lists that start empty; hist is the abstract sequence: push_back appends
\* to it, push_front prepends, clear resets it.
NextRefine ==
    \/ \E l \in Lists : DefaultCtor(l) /\ UNCHANGED hist
    \/ \E l \in Lists, v \in Values :
         PushBack(l, v) /\ hist' = [hist EXCEPT ![l] = Append(hist[l], v)]
    \/ \E l \in Lists, v \in Values :
         PushFront(l, v) /\ hist' = [hist EXCEPT ![l] = <<v>> \o hist[l]]
    \/ \E l \in Lists : Clear(l) /\ hist' = [hist EXCEPT ![l] = <<>>]

SpecRefine == Init /\ [][NextRefine]_vars

\* Programs that fill both objects and copy-assign one to the other, with
\* the heap of MaxNodes addresses: an assignment whose copy finds no address
\* left throws.
NextBadAlloc ==
    \/ \E l \in Lists : DefaultCtor(l) /\ UNCHANGED hist
    \/ \E l \in Lists, v \in Values : PushBack(l, v) /\ UNCHANGED hist
    \/ \E l \in Lists, v \in Values : PushFront(l, v) /\ UNCHANGED hist
    \/ \E l \in Lists, o \in Lists : CopyAssign(l, o) /\ UNCHANGED hist
    \/ \E l \in Lists, o \in Lists : CopyAssignThrows(l, o) /\ UNCHANGED hist

SpecBadAlloc == Init /\ [][NextBadAlloc]_vars

\* Programs that fill and edit a, construct b from the range of a, and
\* destroy b again.
NextRange ==
    \/ \E op \in RangeOps : RangeCtor("b", "a", op) /\ UNCHANGED hist
    \/ \E v \in Values : PushBack("a", v) /\ UNCHANGED hist
    \/ \E v \in Values : PushFront("a", v) /\ UNCHANGED hist
    \/ \E i \in 1..MaxSize : Erase("a", i) /\ UNCHANGED hist
    \/ Clear("a") /\ UNCHANGED hist
    \/ Dtor("b") /\ UNCHANGED hist

SpecRange == Init /\ [][NextRange]_vars
----------------------------------------------------------------------------
\* The claims.  A claim about one call is a property of the steps that call
\* takes: Calls(op, l) holds of a step that is the call op on l, the
\* unprimed state is the state before the call and the primed one after it.

\* The other of the two objects.
Other(l) == CHOOSE o \in Lists : o # l

RemoveAt(s, i) == SubSeq(s, 1, i - 1) \o SubSeq(s, i + 1, Len(s))

Mutations == {"push_back", "push_front", "erase", "clear", "write"}

Calls(op, l) == last'.op = op /\ last'.l = l

\* The step is erase(pos) on the well-formed list l of n elements, pos the
\* iterator to the i-th.
Erases(l, i, n) ==
    /\ Calls("erase", l) /\ last'.idx = i
    /\ alive[l] /\ WellFormed(l) /\ size_[l] = n

\* The last call was erase at position i of a well-formed list l of n elements.
Erased(l, i, n) ==
    /\ last.op = "erase" /\ last.l = l /\ last.idx = i
    /\ last.pre.size[l] = n /\ last.pre.wf[l]

\* C1: after push_back(v1), ..., push_back(vn) on an empty list, forward
\* iteration from begin() to end() yields v1..vn and size() is n (n >= 0).
C1_PushBackOrder ==
    \A l \in Lists : alive[l] =>
        /\ Forward(l) = hist[l]
        /\ size(l) = Len(hist[l])

C1_Witness ==
    /\ Len(hist["a"]) >= 3
    /\ hist["a"][1] # hist["a"][2]
    /\ Forward("a") = hist["a"]

\* C2: a non-empty list has tail_->next_ the one sentinel, the sentinel's
\* prev_ is tail_, size_ steps of next_ from head_ reach the sentinel and
\* size_ steps of prev_ from the sentinel reach head_.
SentinelInvariant(l) ==
    /\ tail_[l] \in live
    /\ LET s == mem[tail_[l]].next_
           fw == ChainNext(mem, live, head_[l], size_[l])
           bw == ChainPrev(mem, live, s, size_[l])
       IN  /\ s \in live
           /\ mem[s].next_ = NULL
           /\ mem[s].prev_ = tail_[l]
           /\ Len(fw) = size_[l] + 1 /\ fw[Len(fw)] = s
           /\ s \notin Range(SubSeq(fw, 1, size_[l]))
           /\ Len(bw) = size_[l] + 1 /\ bw[Len(bw)] = head_[l]
           /\ head_[l] \notin Range(SubSeq(bw, 1, size_[l]))

C2_SentinelInvariant ==
    \A l \in Lists : (status = "ok" /\ alive[l] /\ ~empty(l)) => SentinelInvariant(l)

\* C3: erase(begin()) on a list of n >= 2 elements removes the first one:
\* the program goes on, iteration yields elements 2..n, size() is n-1,
\* front() is the former second element and the iterator returned is the
\* new begin() and dereferences to it.
C3_EraseFirst ==
    [][\A l \in Lists, n \in 2..MaxSize : Erases(l, 1, n) =>
          /\ status' = "ok"
          /\ Forward(l)' = Tail(Forward(l))
          /\ size(l)' = n - 1
          /\ front(l)' = Forward(l)[2]
          /\ last'.ret = begin(l)'
          /\ Deref(mem', live', last'.ret) = Forward(l)[2]]_vars

\* C4: erase of an interior element of a list of n >= 3 elements takes
\* size() to n-1, keeps the order of the other elements in forward and in
\* reverse iteration, and returns an iterator to the element that followed.
C4_EraseInterior ==
    [][\A l \in Lists, n \in 3..MaxSize, i \in 2..(MaxSize - 1) :
          (Erases(l, i, n) /\ i < n) =>
              /\ status' = "ok"
              /\ size(l)' = n - 1
              /\ Forward(l)' = RemoveAt(Forward(l), i)
              /\ Backward(l)' = RemoveAt(Backward(l), n + 1 - i)
              /\ last'.ret = NodeAt(l, i)'
              /\ Deref(mem', live', last'.ret) = Forward(l)[i + 1]]_vars

C4_Witness ==
    \E l \in Lists :
        /\ Erased(l, 2, 3)
        /\ status = "ok"
        /\ Len(Forward(l)) = 2
        /\ Forward(l)[1] # Forward(l)[2]

\* C5: erase of the last element of a list of n >= 2 elements returns
\* end(), leaves size() n-1 and elements 1..n-1, and leaves tail_ at the new
\* last element, a live node: back() is element n-1 and end() the sentinel.
C5_EraseLast ==
    [][\A l \in Lists, n \in 2..MaxSize : Erases(l, n, n) =>
          /\ status' = "ok"
          /\ size(l)' = n - 1
          /\ tail_'[l] \in live'
          /\ tail_'[l] = NodeAt(l, n - 1)'
          /\ last'.ret = end(l)'
          /\ Forward(l)' = SubSeq(Forward(l), 1, n - 1)
          /\ back(l)' = Forward(l)[n - 1]]_vars

\* C6: erase(begin()) on a list of one element leaves empty() and size() 0,
\* deletes the real node and the sentinel, and returns an iterator equal to
\* end() and to begin() of the emptied list.
C6_EraseOnly ==
    [][\A l \in Lists : Erases(l, 1, 1) =>
          /\ status' = "ok"
          /\ empty(l)' /\ size(l)' = 0
          /\ last'.dels = 2 /\ last'.news = 0
          /\ Cardinality(live') = Cardinality(live) - 2
          /\ last'.pre.head[l] \notin live' /\ last'.pre.end[l] \notin live'
          /\ last'.ret = end(l)' /\ last'.ret = begin(l)']_vars

C6_Witness ==
    \E l \in Lists :
        /\ Erased(l, 1, 1)
        /\ status = "ok" /\ empty(l)
        /\ alive[Other(l)] /\ size(Other(l)) >= 1

\* C7: after push_front(v1), ..., push_front(vn) on an empty list, forward
\* iteration yields vn..v1 and size() is n.
C7_PushFrontOrder ==
    \A l \in Lists : alive[l] =>
        /\ Forward(l) = Reverse(hist[l])
        /\ size(l) = Len(hist[l])

C7_Witness ==
    /\ Len(hist["a"]) >= 3
    /\ hist["a"][1] # hist["a"][3]
    /\ Forward("a")[1] = hist["a"][Len(hist["a"])]

\* C8: after push_back(v1), ..., push_back(vn), reverse iteration from
\* rbegin() to rend() yields vn..v1 in n dereferences, none of them of the
\* sentinel; on the empty list rbegin() == rend().
C8_ReverseOrder ==
    \A l \in Lists : alive[l] =>
        /\ Backward(l) = Reverse(hist[l])
        /\ Len(BackwardNodes(l)) = Len(hist[l])
        /\ end(l) \notin Range(BackwardNodes(l))
        /\ hist[l] = <<>> => end(l) = begin(l)

C8_Witness ==
    /\ Len(hist["b"]) >= 3
    /\ hist["b"][1] # hist["b"][2]
    /\ Backward("b")[1] = hist["b"][Len(hist["b"])]

\* C9: a copy-constructed list has the sequence and size of its source and
\* no node in common with it, and a later write through an iterator,
\* push_back, push_front, erase or clear on either of the two leaves the
\* sequence and size of the other unchanged.
C9_CopyIndependent ==
    [][/\ (Calls("List(const List&)", "b") /\ WellFormed("a")) =>
             /\ status' = "ok"
             /\ Forward("b")' = Forward("a")
             /\ size("b")' = size("a")
             /\ Forward("a")' = Forward("a")
             /\ size("a")' = size("a")
             /\ NodesOf("a")' \cap NodesOf("b")' = {}
       /\ \A l \in Lists :
             (alive["b"] /\ last'.op \in Mutations /\ last'.l = l) =>
                 /\ Forward(Other(l))' = Forward(Other(l))
                 /\ size(Other(l))' = size(Other(l))]_vars

\* C10: move construction leaves the source empty() with head_ and tail_
\* null and size() 0, gives the destination the source's sequence and size,
\* and executes no new and no delete.
C10_MoveConstruct ==
    [][\A l \in Lists :
          (Calls("List(List&&)", l) /\ WellFormed(Other(l))) =>
              /\ status' = "ok"
              /\ empty(Other(l))'
              /\ head_'[Other(l)] = NULL /\ tail_'[Other(l)] = NULL
              /\ size(Other(l))' = 0
              /\ Forward(l)' = Forward(Other(l))
              /\ size(l)' = size(Other(l))
              /\ last'.news = 0 /\ last'.dels = 0
              /\ Cardinality(live') = Cardinality(live)]_vars

C10_Witness ==
    /\ last.op = "List(List&&)" /\ last.pre.wf[last.o]
    /\ last.pre.size[last.o] >= 2
    /\ status = "ok"
    /\ size(last.l) >= 2 /\ Len(Forward(last.l)) = size(last.l)
    /\ empty(last.o)

\* The step is the assignment op of the object o to the object l.
Assigns(op, l, o) == Calls(op, l) /\ last'.o = o

MoveAssignOp == "operator=(List&&)"
CopyAssignOp == "operator=(const List&)"

\* C11 as claimed: a = std::move(b), a and b distinct, leaves b empty() and
\* gives a the sequence and size b had, whatever a held before.
C11_MoveAssignSourceEmpty ==
    [][\A l \in Lists :
          (Assigns(MoveAssignOp, l, Other(l)) /\ WellFormed(l) /\ WellFormed(Other(l))) =>
              /\ empty(Other(l))'
              /\ Forward(l)' = Forward(Other(l))
              /\ size(l)' = size(Other(l))]_vars

\* C11: a = std::move(b), a and b distinct, gives a the sequence and size b
\* had, whatever a held before, and leaves b empty() exactly when a was
\* empty before the assignment.
C11_MoveAssign ==
    [][\A l \in Lists :
          Assigns(MoveAssignOp, l, Other(l)) =>
              /\ status' = "ok"
              /\ empty(Other(l))' <=> empty(l)
              /\ Forward(l)' = Forward(Other(l))
              /\ size(l)' = size(Other(l))]_vars

C11_Witness ==
    /\ last.op = MoveAssignOp /\ last.o # last.l
    /\ last.pre.wf[last.l] /\ last.pre.wf[last.o]
    /\ last.pre.size[last.l] >= 1 /\ last.pre.size[last.o] >= 2
    /\ status = "ok"
    /\ ~empty(last.o)
    /\ Len(Forward(last.l)) = last.pre.size[last.o]

\* C12: a = a and a = std::move(a) change nothing: the sequence, size_,
\* head_, tail_, the live nodes and their contents stay as they were, and no
\* new and no delete is executed.
C12_SelfAssign ==
    [][\A l \in Lists, op \in {CopyAssignOp, MoveAssignOp} :
          Assigns(op, l, l) =>
              /\ status' = "ok"
              /\ Forward(l)' = Forward(l)
              /\ size(l)' = size(l)
              /\ head_' = head_ /\ tail_' = tail_ /\ size_' = size_
              /\ live' = live /\ mem' = mem
              /\ last'.news = 0 /\ last'.dels = 0]_vars

C12_Witness ==
    /\ last.op = CopyAssignOp /\ last.o = last.l
    /\ status = "ok"
    /\ size(last.l) >= 2 /\ Len(Forward(last.l)) = size(last.l)
    /\ last.pre.size[last.l] = size(last.l)
    /\ Free(Used(Mach)) >= size(last.l) + 1

\* C13: a List constructed from (other.begin(), other.end()) or from
\* (other.cbegin(), other.cend()) has the sequence and size of other, the
\* empty list included, and other keeps its sequence, size and nodes.
C13_RangeRoundTrip ==
    [][\A op \in RangeOps :
          (Assigns(op, "b", "a") /\ WellFormed("a")) =>
              /\ status' = "ok"
              /\ Forward("b")' = Forward("a")
              /\ size("b")' = size("a")
              /\ Len(Forward("b"))' = size("a")
              /\ WellFormed("b")'
              /\ Forward("a")' = Forward("a")
              /\ size("a")' = size("a")
              /\ WellFormed("a")'
              /\ NodesOf("a")' \cap NodesOf("b")' = {}
              /\ last'.news = (IF size("a") = 0 THEN 0 ELSE size("a") + 1)
              /\ last'.dels = 0]_vars

C13_Witness ==
    /\ last.op \in RangeOps /\ last.l = "b" /\ last.o = "a"
    /\ last.pre.wf["a"] /\ last.pre.size["a"] >= 2
    /\ status = "ok"
    /\ Forward("b") = Forward("a")
    /\ Len(Forward("b")) >= 2
    /\ Forward("b")[1] # Forward("b")[2]

\* clear() on every constructed object, l first: the machine state after
\* the destructors of all the objects have run in the current state.
AllCleared(l) ==
    LET S == clear([Mach EXCEPT !.st = "ok"], l)
    IN  IF alive[Other(l)] /\ S.st = "ok" THEN clear(S, Other(l)) ELSE S

\* C14: in every state a sequence of public calls reaches, clear() on a
\* list ends with head_ = tail_ = nullptr and size_ = 0 and deletes no node
\* twice, on an empty list it changes nothing, and once every list is
\* cleared each node allocated has been deleted exactly once: none stays live.
C14_ClearFreesAll ==
    \A l \in Lists : (alive[l] /\ status # "crashed") =>
        LET S == clear([Mach EXCEPT !.st = "ok"], l)
            U == AllCleared(l)
        IN  /\ S.st = "ok"
            /\ S.head_[l] = NULL /\ S.tail_[l] = NULL /\ S.size_[l] = 0
            /\ head_[l] = NULL => (S.live = live /\ S.dels = 0)
            /\ U.st = "ok"
            /\ U.live = {}
            /\ U.dels = Cardinality(live)

\* The live nodes on the chain of next_ from head_: the nodes clear() deletes.
Owned(l) == Range(ChainOrd(mem, live, head_[l], <<>>))

\* C15: in every state a sequence of public calls reaches, size() is 0
\* exactly when head_ and tail_ are null, exactly when empty(); an empty
\* list has no live node, and a list of size() > 0 has size() + 1 of them,
\* the real nodes and one sentinel, which are all the live nodes when the
\* list is the only object.
C15_SizeAndNodes ==
    \A l \in Lists : (alive[l] /\ status # "crashed") =>
        /\ size(l) = 0 <=> (head_[l] = NULL /\ tail_[l] = NULL)
        /\ size(l) = 0 <=> empty(l)
        /\ size(l) = 0 => Owned(l) = {}
        /\ size(l) > 0 => Cardinality(Owned(l)) = size(l) + 1
        /\ ~alive[Other(l)] => live = Owned(l)

Pushes == {"push_back", "push_front"}

\* The nodes the iterators its refer to, in the order of its.
NodesOfIterators(its) == [i \in 1..Len(its) |-> its[i].node]

\* The items of s that are in the set A, in the order of s.
RECURSIVE Restrict(_, _)
Restrict(s, A) ==
    IF s = <<>> THEN <<>>
    ELSE (IF Head(s) \in A THEN <<Head(s)>> ELSE <<>>) \o Restrict(Tail(s), A)

\* C16: after push_back or push_front, every iterator that referred to a
\* real element before the call refers to a live node with the value it had,
\* and forward iteration meets these nodes in the order it met them before.
C16_IteratorsStay ==
    last.op \in Pushes =>
        \A x \in Lists :
            /\ \A i \in 1..Len(hist[x]) :
                  /\ hist[x][i].node \in live
                  /\ Deref(mem, live, hist[x][i].node) = hist[x][i].val
                  /\ hist[x][i].val \in Values
            /\ Restrict(ForwardNodes(x), Range(NodesOfIterators(hist[x])))
                  = NodesOfIterators(hist[x])
            /\ Len(ForwardNodes(x)) = Len(hist[x]) + (IF x = last.l THEN 1 ELSE 0)

C16_Witness ==
    /\ last.op = "push_back"
    /\ Len(hist[last.l]) >= 2
    /\ hist[last.l][2].val # last.v
    /\ hist[last.l][1].val # hist[last.l][2].val
    /\ Forward(last.l)[3] = last.v
    /\ Deref(mem, live, hist[last.l][2].node) = hist[last.l][2].val

\* C17: when a `new` throws while a = b (a and b distinct) builds its
\* temporary copy, a has the head_, tail_, size_ and sequence it had before
\* the assignment, and b has too.
C17_CopyAssignStrong ==
    [][\A l \in Lists :
          (Assigns(CopyAssignOp, l, Other(l)) /\ status' = "bad_alloc") =>
              /\ \A x \in Lists :
                    /\ head_'[x] = last'.pre.head[x]
                    /\ tail_'[x] = last'.pre.tail[x]
                    /\ size_'[x] = size_[x]
                    /\ Forward(x)' = Forward(x)
                    /\ Backward(x)' = Backward(x)
                    /\ WellFormed(x)' = WellFormed(x)
              /\ last'.dels = 0]_vars

C17_Witness ==
    /\ last.op = CopyAssignOp /\ last.o # last.l
    /\ status = "bad_alloc"
    /\ last.news >= 1
    /\ size(last.l) >= 1 /\ size(last.o) >= 2
    /\ Forward(last.l) # SubSeq(Forward(last.o), 1, size(last.l))
    /\ Len(Forward(last.l)) = size(last.l)

\* C18: a = std::move(b), a and b distinct, exchanges the two objects: a
\* has the head_, tail_, size_ and sequence b had and b those a had, and no
\* new and no delete is executed.
C18_MoveAssignSwap ==
    [][\A l \in Lists :
          Assigns(MoveAssignOp, l, Other(l)) =>
              /\ status' = "ok"
              /\ \A x \in Lists :
                    /\ head_'[x] = last'.pre.head[Other(x)]
                    /\ tail_'[x] = last'.pre.tail[Other(x)]
                    /\ size_'[x] = size_[Other(x)]
                    /\ Forward(x)' = Forward(Other(x))
                    /\ Backward(x)' = Backward(Other(x))
              /\ last'.news = 0 /\ last'.dels = 0
              /\ Cardinality(live') = Cardinality(live)]_vars

C18_Witness ==
    /\ last.op = MoveAssignOp /\ last.o # last.l
    /\ last.pre.wf[last.l] /\ last.pre.wf[last.o]
    /\ last.pre.size[last.l] = 2 /\ last.pre.size[last.o] = 1
    /\ status = "ok"
    /\ size(last.l) = 1 /\ size(last.o) = 2
    /\ Len(Forward(last.o)) = 2
    /\ Forward(last.o)[2] # Forward(last.l)[1]

\* C19: in every interleaving of push_back, push_front and clear from an
\* empty list, forward iteration yields the abstract sequence, reverse
\* iteration its reversal, size() is its length, and on a non-empty list
\* front() and back() are its first and last elements.
C19_Refinement ==
    \A l \in Lists : alive[l] =>
        /\ status = "ok"
        /\ Forward(l) = hist[l]
        /\ Backward(l) = Reverse(hist[l])
        /\ size(l) = Len(hist[l])
        /\ empty(l) <=> hist[l] = <<>>
        /\ hist[l] # <<>> =>
              /\ front(l) = hist[l][1]
              /\ back(l) = hist[l][Len(hist[l])]

C19_Witness ==
    /\ last.op = "clear" /\ last.pre.size[last.l] >= 2
    /\ hist[last.l] = <<>> /\ empty(last.l)
    /\ alive[Other(last.l)]
    /\ Len(hist[Other(last.l)]) >= 2
    /\ front(Other(last.l)) # back(Other(last.l))
    /\ Forward(Other(last.l)) = hist[Other(last.l)]

\* C20: an iterator end() taken before push_back(v) differs from end()
\* after it.  On a non-empty list it refers to the old sentinel, which is
\* the new tail_: it dereferences to v and equals the iterator to the last
\* real element.  On an empty list it is null and the new end() is the
\* sentinel just allocated.
C20_EndMoves ==
    [][\A l \in Lists :
          (Calls("push_back", l) /\ WellFormed(l)) =>
              /\ status' = "ok"
              /\ end(l)' # last'.pre.end[l]
              /\ end(l)' \in live'
              /\ ~empty(l) =>
                    /\ last'.pre.end[l] \in live'
                    /\ last'.pre.end[l] = tail_'[l]
                    /\ last'.pre.end[l] = NodeAt(l, size(l))'
                    /\ Deref(mem', live', last'.pre.end[l]) = last'.v
                    /\ mem'[last'.pre.end[l]].next_ = end(l)'
                    /\ last'.news = 1
              /\ empty(l) =>
                    /\ last'.pre.end[l] = NULL
                    /\ end(l)' = mem'[head_'[l]].next_
                    /\ last'.news = 2]_vars

C20_Witness ==
    /\ last.op = "push_back" /\ last.pre.wf[last.l]
    /\ last.pre.size[last.l] >= 2
    /\ status = "ok"
    /\ last.pre.end[last.l] = tail_[last.l]
    /\ end(last.l) # last.pre.end[last.l]
    /\ back(last.l) = last.v
    /\ front(last.l) # last.v

====
